---- MODULE Spec2Model ----
(***************************************************************************)
(* A model of dax-rust: the Value type (src/src/types.rs), the Table and   *)
(* its aggregate operations and evaluator (src/src/table.rs) and the       *)
(* runtime tokenizer (src/dax-macro-impl/src/lib.rs).                      *)
(*                                                                         *)
(* Strings are sequences of one-character strings.  An f64 is a record     *)
(* [c, neg, m]: class ("fin", "inf", "nan"), sign bit and magnitude.  The  *)
(* finite magnitudes are those of a small binary floating-point format     *)
(* (MantBits bits of significand, exponents 0..MaxExp, gradual underflow), *)
(* with IEEE round-to-nearest-even and overflow to infinity, so that       *)
(* rounding, signed zeros, infinities and NaN behave as they do in f64.    *)
(***************************************************************************)
EXTENDS Integers, Sequences, FiniteSets, TLC

VARIABLES columns, call

vars == <<columns, call>>

(***************************************************************************)
(* Bounds of the model.                                                    *)
(***************************************************************************)
MantBits == 3      \* bits of significand of the model's float format
MaxExp == 3        \* largest exponent of the model's float format
MaxLen == 3        \* longest column explored by the aggregate operations
MaxChunks == 3     \* longest expression, in lexical chunks

(***************************************************************************)
(* f64                                                                     *)
(***************************************************************************)
Fin(neg, q) == [c |-> "fin", neg |-> neg, m |-> q]
Inf(neg) == [c |-> "inf", neg |-> neg, m |-> 0]
NaN(p) == [c |-> "nan", neg |-> FALSE, m |-> p]

PZero == Fin(FALSE, 0)
NZero == Fin(TRUE, 0)
PInf == Inf(FALSE)
NInf == Inf(TRUE)

\* The magnitude of 1.0: significand 10..0 at exponent 0.
OneMag == 2 ^ (MantBits - 1)
\* The largest finite magnitude, and the power of two above it.
MaxMag == (2 ^ MantBits - 1) * 2 ^ MaxExp
OverMag == 2 ^ MantBits * 2 ^ MaxExp

\* The representable finite magnitudes, and the same with the overflow point.
RepMags == {mt * 2 ^ e : mt \in 0 .. (2 ^ MantBits - 1), e \in 0 .. MaxExp}
RepExt == RepMags \cup {OverMag}

RECURSIVE Significand(_)
Significand(r) == IF r < 2 ^ MantBits THEN r ELSE Significand(r \div 2)

SetMax(S) == CHOOSE x \in S : \A y \in S : y <= x
SetMin(S) == CHOOSE x \in S : \A y \in S : x <= y

\* The float nearest to the real number (-1)^neg * n / d (n >= 0, d > 0):
\* round to nearest, ties to the even significand, overflow to infinity.
RoundRat(neg, n, d) ==
    LET lo == SetMax({r \in RepExt : r * d <= n})
        hi == IF lo = OverMag THEN OverMag ELSE SetMin({r \in RepExt : r * d >= n})
        pick == IF n - lo * d < hi * d - n THEN lo
                ELSE IF n - lo * d > hi * d - n THEN hi
                ELSE IF Significand(lo) % 2 = 0 THEN lo ELSE hi
    IN  IF pick = OverMag THEN Inf(neg) ELSE Fin(neg, pick)

\* usize as f64
FromUsize(k) == RoundRat(FALSE, k * OneMag, 1)

is_nan(a) == a.c = "nan"
is_infinite(a) == a.c = "inf"
is_sign_positive(a) == ~a.neg

\* a + b on f64
FAdd(a, b) ==
    IF is_nan(a) THEN a
    ELSE IF is_nan(b) THEN b
    ELSE IF is_infinite(a) /\ is_infinite(b) THEN (IF a.neg = b.neg THEN a ELSE NaN(0))
    ELSE IF is_infinite(a) THEN a
    ELSE IF is_infinite(b) THEN b
    ELSE LET sa == IF a.neg THEN 0 - a.m ELSE a.m
             sb == IF b.neg THEN 0 - b.m ELSE b.m
             s == sa + sb
         IN  IF s = 0 THEN Fin(a.neg /\ b.neg, 0)
             ELSE IF s < 0 THEN RoundRat(TRUE, 0 - s, 1)
             ELSE RoundRat(FALSE, s, 1)

\* a / b on f64
FDiv(a, b) ==
    LET neg == (a.neg # b.neg) IN
    IF is_nan(a) THEN a
    ELSE IF is_nan(b) THEN b
    ELSE IF is_infinite(a) THEN (IF is_infinite(b) THEN NaN(0) ELSE Inf(neg))
    ELSE IF is_infinite(b) THEN Fin(neg, 0)
    ELSE IF b.m = 0 THEN (IF a.m = 0 THEN NaN(0) ELSE Inf(neg))
    ELSE RoundRat(neg, a.m * OneMag, b.m)

\* a == b on f64 (IEEE: NaN equals nothing, the two zeros are equal)
FEq(a, b) ==
    IF is_nan(a) \/ is_nan(b) THEN FALSE
    ELSE IF a.c = "fin" /\ b.c = "fin" /\ a.m = 0 /\ b.m = 0 THEN TRUE
    ELSE a = b

\* a < b on f64
FLt(a, b) ==
    IF is_nan(a) \/ is_nan(b) THEN FALSE
    ELSE LET key(x) == IF x.c = "inf" THEN (IF x.neg THEN 0 - OverMag ELSE OverMag)
                       ELSE IF x.neg THEN 0 - x.m ELSE x.m
         IN  key(a) < key(b)

\* f64::partial_cmp
partial_cmp(a, b) ==
    IF is_nan(a) \/ is_nan(b) THEN "None"
    ELSE IF FLt(a, b) THEN "Less"
    ELSE IF FLt(b, a) THEN "Greater"
    ELSE "Equal"

\* f64::to_bits, as the eight bytes write_u64 feeds the hasher (little endian):
\* the sign is the top bit of the last byte, an all-ones exponent marks the
\* infinities and NaN, the magnitude (or the NaN payload) fills the low byte.
to_bits(a) ==
    LET low == IF a.c = "inf" THEN 0 ELSE a.m % 256
        exp6 == IF a.c = "fin" THEN 0 ELSE IF a.c = "inf" THEN 240 ELSE 248
        exp7 == IF a.c = "fin" THEN 0 ELSE 127
    IN  <<low, 0, 0, 0, 0, 0, exp6, exp7 + (IF a.neg THEN 128 ELSE 0)>>

(***************************************************************************)
(* Value (types.rs)                                                        *)
(***************************************************************************)
Number(n) == [t |-> "Number", n |-> n]
Text(s) == [t |-> "Text", s |-> s]
Boolean(b) == [t |-> "Boolean", b |-> b]
Null == [t |-> "Null"]

\* ValueEq as the derived PartialEq would be: Numbers compared as floats only.
ValueEq_FloatEqOnly(a, b) ==
    IF a.t = "Number" /\ b.t = "Number" THEN FEq(a.n, b.n)
    ELSE a = b

\* impl PartialEq for Value
ValueEq(a, b) ==
    IF a.t = "Number" /\ b.t = "Number"
    THEN (IF is_nan(a.n) /\ is_nan(b.n) THEN TRUE ELSE FEq(a.n, b.n))
    ELSE IF a.t = "Text" /\ b.t = "Text" THEN a.s = b.s
    ELSE IF a.t = "Boolean" /\ b.t = "Boolean" THEN a.b = b.b
    ELSE IF a.t = "Null" /\ b.t = "Null" THEN TRUE
    ELSE FALSE

\* The UTF-8 byte of the characters that occur in Text cells.
Utf8(ch) == CASE ch = "x" -> 120 [] ch = "y" -> 121 [] OTHER -> 63

\* str::hash: the bytes of the string, then 0xff.
StrHash(s) == [i \in 1 .. Len(s) |-> Utf8(s[i])] \o <<255>>

\* impl Hash for Value: the bytes fed to the hasher.
ValueHash(v) ==
    IF v.t = "Number"
    THEN (IF is_nan(v.n) THEN <<0>>
          ELSE IF is_infinite(v.n)
               THEN (IF is_sign_positive(v.n) THEN <<1>> ELSE <<2>>)
               ELSE to_bits(v.n))
    ELSE IF v.t = "Text" THEN StrHash(v.s)
    ELSE IF v.t = "Boolean" THEN (IF v.b THEN <<1>> ELSE <<0>>)
    ELSE <<3>>

(***************************************************************************)
(* Table (table.rs)                                                        *)
(***************************************************************************)
Some(x) == [some |-> TRUE, val |-> x]
None == [some |-> FALSE]

\* Table::new
NewTable == <<>>

\* Table::get_column
get_column(T, name) == IF name \in DOMAIN T THEN Some(T[name]) ELSE None

\* add_column extending the column already stored under the name.
add_column_Appends(T, name, values) ==
    [n \in (DOMAIN T) \cup {name} |->
        IF n # name THEN T[n] ELSE IF n \in DOMAIN T THEN T[n] \o values ELSE values]

\* Table::add_column (HashMap::insert)
add_column(T, name, values) ==
    [n \in (DOMAIN T) \cup {name} |-> IF n = name THEN values ELSE T[n]]

\* SumFold folding from the last entry to the first.
RECURSIVE SumFold_FromRight(_, _)
SumFold_FromRight(col, acc) ==
    IF col = <<>> THEN acc
    ELSE SumFold_FromRight(SubSeq(col, 1, Len(col) - 1),
                           IF col[Len(col)].t = "Number"
                           THEN FAdd(acc, col[Len(col)].n) ELSE acc)

\* The fold of Table::sum: add the Number entries, skip the others.
RECURSIVE SumFold(_, _)
SumFold(col, acc) ==
    IF col = <<>> THEN acc
    ELSE SumFold(Tail(col),
                 IF Head(col).t = "Number" THEN FAdd(acc, Head(col).n) ELSE acc)

\* sum answering 0.0 for a column that does not exist.
sum_MissingIsZero(T, name) ==
    IF ~get_column(T, name).some THEN Some(PZero)
    ELSE Some(SumFold(get_column(T, name).val, PZero))

\* Table::sum
sum(T, name) ==
    IF ~get_column(T, name).some THEN None
    ELSE Some(SumFold(get_column(T, name).val, PZero))

\* AverageLoop counting every entry, not only the Number entries.
RECURSIVE AverageLoop_CountsAll(_, _, _)
AverageLoop_CountsAll(col, s, count) ==
    IF col = <<>> THEN <<s, count>>
    ELSE IF Head(col).t = "Number"
         THEN AverageLoop_CountsAll(Tail(col), FAdd(s, Head(col).n), count + 1)
         ELSE AverageLoop_CountsAll(Tail(col), s, count + 1)

\* The loop of Table::average: the pair <<sum, count>> over the Number entries.
RECURSIVE AverageLoop(_, _, _)
AverageLoop(col, s, count) ==
    IF col = <<>> THEN <<s, count>>
    ELSE IF Head(col).t = "Number"
         THEN AverageLoop(Tail(col), FAdd(s, Head(col).n), count + 1)
         ELSE AverageLoop(Tail(col), s, count)

\* Table::average
average(T, name) ==
    IF ~get_column(T, name).some THEN None
    ELSE LET r == AverageLoop(get_column(T, name).val, PZero, 0)
         IN  IF r[2] > 0 THEN Some(FDiv(r[1], FromUsize(r[2]))) ELSE Some(PZero)

\* Table::count
count(T, name) ==
    IF ~get_column(T, name).some THEN None
    ELSE Some(Len(get_column(T, name).val))

\* HashSet<&Value>::insert.  The set finds an equal element when the two feed
\* the hasher the same bytes; when equal elements feed it different bytes their
\* 64-bit hashes differ, and the lookup compares them only if the hashes happen
\* to share a probe position and tag under the set's random keys (tagHit).
HashSetInsert(set, v, tagHit) ==
    IF \E u \in set : ValueEq(u, v) /\ (ValueHash(u) = ValueHash(v) \/ tagHit)
    THEN set
    ELSE set \cup {v}

\* column.iter().collect::<HashSet<&Value>>()
RECURSIVE HashSetCollect(_, _, _)
HashSetCollect(col, set, tagHit) ==
    IF col = <<>> THEN set
    ELSE HashSetCollect(Tail(col), HashSetInsert(set, Head(col), tagHit), tagHit)

\* Table::distinctcount
distinctcount(T, name, tagHit) ==
    IF ~get_column(T, name).some THEN None
    ELSE Some(Cardinality(HashSetCollect(get_column(T, name).val, {}, tagHit)))

\* filter_map(|value| if let Value::Number(n) = value { Some(*n) } else { None })
RECURSIVE FilterNumbers(_)
FilterNumbers(col) ==
    IF col = <<>> THEN <<>>
    ELSE IF Head(col).t = "Number"
         THEN <<Head(col).n>> \o FilterNumbers(Tail(col))
         ELSE FilterNumbers(Tail(col))

\* |a, b| a.partial_cmp(b).unwrap_or(Ordering::Equal)
CmpOrEqual(a, b) == IF partial_cmp(a, b) = "None" THEN "Equal" ELSE partial_cmp(a, b)

\* MinByReduce with the comparison turned around.
RECURSIVE MinByReduce_Flipped(_, _)
MinByReduce_Flipped(x, rest) ==
    IF rest = <<>> THEN x
    ELSE MinByReduce_Flipped(IF CmpOrEqual(x, Head(rest)) = "Less" THEN Head(rest) ELSE x,
                             Tail(rest))

\* Iterator::min_by: reduce, keeping the earlier element unless it is Greater.
RECURSIVE MinByReduce(_, _)
MinByReduce(x, rest) ==
    IF rest = <<>> THEN x
    ELSE MinByReduce(IF CmpOrEqual(x, Head(rest)) = "Greater" THEN Head(rest) ELSE x,
                     Tail(rest))

\* MaxByReduce keeping the earlier element unless the later one is greater.
RECURSIVE MaxByReduce_KeepsEarlier(_, _)
MaxByReduce_KeepsEarlier(x, rest) ==
    IF rest = <<>> THEN x
    ELSE MaxByReduce_KeepsEarlier(
             IF CmpOrEqual(x, Head(rest)) = "Less" THEN Head(rest) ELSE x, Tail(rest))

\* Iterator::max_by: reduce, keeping the later element unless the earlier is Greater.
RECURSIVE MaxByReduce(_, _)
MaxByReduce(x, rest) ==
    IF rest = <<>> THEN x
    ELSE MaxByReduce(IF CmpOrEqual(x, Head(rest)) = "Greater" THEN x ELSE Head(rest),
                     Tail(rest))

\* Table::min
min(T, name) ==
    IF ~get_column(T, name).some THEN None
    ELSE LET nums == FilterNumbers(get_column(T, name).val)
         IN  IF nums = <<>> THEN None ELSE Some(MinByReduce(Head(nums), Tail(nums)))

\* Table::max
max(T, name) ==
    IF ~get_column(T, name).some THEN None
    ELSE LET nums == FilterNumbers(get_column(T, name).val)
         IN  IF nums = <<>> THEN None ELSE Some(MaxByReduce(Head(nums), Tail(nums)))

(***************************************************************************)
(* Tokenizer (dax-macro-impl/src/lib.rs)                                   *)
(***************************************************************************)
TokFunction(name) == [t |-> "Function", name |-> name]
TokNumber(n) == [t |-> "Number", n |-> n]
TokOperator(ch) == [t |-> "Operator", ch |-> ch]
TokColumn(name) == [t |-> "Column", name |-> name]
TokComma == [t |-> "Comma"]
TokParenOpen == [t |-> "ParenOpen"]
TokParenClose == [t |-> "ParenClose"]
TokWhitespace == [t |-> "Whitespace"]

\* '0'..='9', char::is_digit(10)
Digits == {"0", "1", "2", "3", "4", "5", "6", "7", "8", "9"}
\* 'A'..='Z' | 'a'..='z'
AsciiLetters ==
    {"A", "B", "C", "D", "E", "F", "G", "H", "I", "J", "K", "L", "M",
     "N", "O", "P", "Q", "R", "S", "T", "U", "V", "W", "X", "Y", "Z",
     "a", "b", "c", "d", "e", "f", "g", "h", "i", "j", "k", "l", "m",
     "n", "o", "p", "q", "r", "s", "t", "u", "v", "w", "x", "y", "z"}
\* char::is_alphabetic: the ASCII letters and the alphabetic characters beyond ASCII
Alphabetic == AsciiLetters \cup {"é"}
Operators == {"+", "-", "*", "/"}
\* ' ' | '\t' | '\n' | '\r'
WhitespaceChars == {" ", "\t", "\n", "\r"}

\* The inner loop of an arm without its chars.next(): the cursor stays where it is.
ScanWhile_Stalls(s, i, class) == i

\* The inner loop of an arm leaving after its first character.
ScanWhile_OneChar(s, i, class) == i + 1

\* The first position from i on whose character is not in class (Len(s)+1 if none).
RECURSIVE ScanWhile(_, _, _)
ScanWhile(s, i, class) ==
    IF i <= Len(s) /\ s[i] \in class THEN ScanWhile(s, i + 1, class) ELSE i

\* The column loop ending at a further '[' as well as at ']'.
RECURSIVE ScanToClose_StopsAtOpen(_, _)
ScanToClose_StopsAtOpen(s, i) ==
    IF i <= Len(s) /\ s[i] \notin {"]", "["} THEN ScanToClose_StopsAtOpen(s, i + 1) ELSE i

\* The first position from i on that holds ']' (Len(s)+1 if none).
RECURSIVE ScanToClose(_, _)
ScanToClose(s, i) ==
    IF i <= Len(s) /\ s[i] # "]" THEN ScanToClose(s, i + 1) ELSE i

DigitVal(ch) ==
    CASE ch = "0" -> 0 [] ch = "1" -> 1 [] ch = "2" -> 2 [] ch = "3" -> 3
      [] ch = "4" -> 4 [] ch = "5" -> 5 [] ch = "6" -> 6 [] ch = "7" -> 7
      [] ch = "8" -> 8 [] ch = "9" -> 9

\* The decimal digits of a run as <<integer, number of digits after the dot>>.
RECURSIVE DecimalOf(_, _, _, _)
DecimalOf(run, acc, frac, seenDot) ==
    IF run = <<>> THEN <<acc, frac>>
    ELSE IF Head(run) = "." THEN DecimalOf(Tail(run), acc, frac, TRUE)
    ELSE DecimalOf(Tail(run), acc * 10 + DigitVal(Head(run)),
                   IF seenDot THEN frac + 1 ELSE frac, seenDot)

\* str::parse::<f64> on a run of digits and dots: one dot at most and a digit.
ParseF64(run) ==
    IF Cardinality({i \in 1 .. Len(run) : run[i] = "."}) > 1
       \/ ~(\E i \in 1 .. Len(run) : run[i] \in Digits)
    THEN None
    ELSE LET d == DecimalOf(run, 0, 0, FALSE)
         IN  Some(RoundRat(FALSE, d[1] * OneMag, 10 ^ d[2]))

\* tokens.push(token) put at the wrong end of the vector.
push_Front(tokens, token) == <<token>> \o tokens

\* tokens.push(token)
push(tokens, token) == Append(tokens, token)

\* One iteration of the main loop of tokenize: the match on the character at
\* position i, giving the position the cursor is left at and the tokens pushed.
TokenizeIter(s, i, tokens) ==
    LET c == s[i] IN
    IF c \in Digits
    THEN LET j == ScanWhile(s, i, Digits \cup {"."})
             n == ParseF64(SubSeq(s, i, j - 1))
         IN  [pos |-> j,
              tokens |-> IF n.some THEN push(tokens, TokNumber(n.val)) ELSE tokens]
    ELSE IF c = "["
    THEN LET j == ScanToClose(s, i + 1)
         IN  [pos |-> IF j <= Len(s) THEN j + 1 ELSE j,
              tokens |-> push(tokens, TokColumn(SubSeq(s, i + 1, j - 1)))]
    ELSE IF c = "(" THEN [pos |-> i + 1, tokens |-> push(tokens, TokParenOpen)]
    ELSE IF c = ")" THEN [pos |-> i + 1, tokens |-> push(tokens, TokParenClose)]
    ELSE IF c = "," THEN [pos |-> i + 1, tokens |-> push(tokens, TokComma)]
    ELSE IF c \in Operators
    THEN [pos |-> i + 1, tokens |-> push(tokens, TokOperator(c))]
    ELSE IF c \in WhitespaceChars
    THEN [pos |-> i + 1, tokens |-> push(tokens, TokWhitespace)]
    ELSE IF c \in AsciiLetters
    THEN LET j == ScanWhile(s, i, Alphabetic)
         IN  [pos |-> j, tokens |-> push(tokens, TokFunction(SubSeq(s, i, j - 1)))]
    ELSE [pos |-> i + 1, tokens |-> tokens]

\* The main loop of tokenize, from position i with the tokens pushed so far.
RECURSIVE TokenizeFrom(_, _, _)
TokenizeFrom(s, i, tokens) ==
    IF i > Len(s) THEN tokens
    ELSE LET r == TokenizeIter(s, i, tokens) IN TokenizeFrom(s, r.pos, r.tokens)

\* tokenize
tokenize(input) == TokenizeFrom(input, 1, <<>>)

(***************************************************************************)
(* Evaluator (table.rs, Table::evaluate_dax)                               *)
(***************************************************************************)
\* A numeric result wrapped as DaxResult::Text.
ResNumber_AsText(n) == [kind |-> "Text", s |-> n]

\* DaxResult::Number(n)
ResNumber(n) == [kind |-> "Number", n |-> n]
\* DaxResult::Error(format!(fmt, arg))
ResError(fmt, arg) == [kind |-> "Error", fmt |-> fmt, arg |-> arg]

S_SUM == <<"S", "U", "M">>
S_AVERAGE == <<"A", "V", "E", "R", "A", "G", "E">>
S_MIN == <<"M", "I", "N">>
S_MAX == <<"M", "A", "X">>
S_DISTINCTCOUNT == <<"D", "I", "S", "T", "I", "N", "C", "T", "C", "O", "U", "N", "T">>

\* The function names evaluate_dax has an arm for.
Recognized == {S_SUM, S_AVERAGE, S_MIN, S_MAX, S_DISTINCTCOUNT}

\* The `return match self.f(&col_name) { Some(x) => Number, None => Error }` of
\* each arm; invoked records the table operation called.
Dispatch(T, name, col_name, tagHit) ==
    LET r == CASE name = S_SUM -> sum(T, col_name)
               [] name = S_AVERAGE -> average(T, col_name)
               [] name = S_MIN -> min(T, col_name)
               [] name = S_MAX -> max(T, col_name)
               [] name = S_DISTINCTCOUNT -> distinctcount(T, col_name, tagHit)
        fmt == CASE name = S_SUM -> "Could not calculate SUM for column {}"
                 [] name = S_AVERAGE -> "Could not calculate AVERAGE for column {}"
                 [] name = S_MIN -> "Could not calculate MIN for column {}"
                 [] name = S_MAX -> "Could not calculate MAX for column {}"
                 [] name = S_DISTINCTCOUNT ->
                        "Could not calculate DISTINCTCOUNT for column {}"
    IN  [result |-> IF ~r.some THEN ResError(fmt, col_name)
                    ELSE IF name = S_DISTINCTCOUNT THEN ResNumber(FromUsize(r.val))
                    ELSE ResNumber(r.val),
         invoked |-> <<[f |-> name, col |-> col_name]>>]

\* The end of evaluate_dax: the token iterator is exhausted.
Exhausted ==
    [result |-> ResError("Invalid or unsupported DAX expression", <<>>),
     invoked |-> <<>>]

\* EvalInner returning at the last Column token instead of the first.
RECURSIVE EvalInner_LastColumn(_, _, _, _, _)
EvalInner_LastColumn(T, tokens, i, name, tagHit) ==
    IF i > Len(tokens) THEN Exhausted
    ELSE IF tokens[i].t = "Column"
            /\ ~(\E j \in (i + 1) .. Len(tokens) : tokens[j].t = "Column")
         THEN Dispatch(T, name, tokens[i].name, tagHit)
         ELSE EvalInner_LastColumn(T, tokens, i + 1, name, tagHit)

\* EvalInner calling the operation on an empty column name when no Column follows.
RECURSIVE EvalInner_DispatchAtEnd(_, _, _, _, _)
EvalInner_DispatchAtEnd(T, tokens, i, name, tagHit) ==
    IF i > Len(tokens) THEN Dispatch(T, name, <<>>, tagHit)
    ELSE IF tokens[i].t = "Column" THEN Dispatch(T, name, tokens[i].name, tagHit)
    ELSE EvalInner_DispatchAtEnd(T, tokens, i + 1, name, tagHit)

\* EvalInner matching a further Function token as the outer loop does: it takes
\* over when it is a recognized name and is an error otherwise.
RECURSIVE EvalInner_Reenters(_, _, _, _, _)
EvalInner_Reenters(T, tokens, i, name, tagHit) ==
    IF i > Len(tokens) THEN Exhausted
    ELSE IF tokens[i].t = "Column" THEN Dispatch(T, name, tokens[i].name, tagHit)
    ELSE IF tokens[i].t = "Function"
         THEN (IF tokens[i].name \in Recognized
               THEN EvalInner_Reenters(T, tokens, i + 1, tokens[i].name, tagHit)
               ELSE [result |-> ResError("Unsupported function: {}", tokens[i].name),
                     invoked |-> <<>>])
    ELSE EvalInner_Reenters(T, tokens, i + 1, name, tagHit)

\* The inner `while let Some(token) = iter.next()` of a recognized function's
\* arm: return at the first Column token; at the end of the tokens fall back to
\* the outer loop, whose iter.next() then yields nothing.
RECURSIVE EvalInner(_, _, _, _, _)
EvalInner(T, tokens, i, name, tagHit) ==
    IF i > Len(tokens) THEN Exhausted
    ELSE IF tokens[i].t = "Column" THEN Dispatch(T, name, tokens[i].name, tagHit)
    ELSE EvalInner(T, tokens, i + 1, name, tagHit)

\* EvalOuter skipping a function name it has no arm for.
RECURSIVE EvalOuter_SkipsUnknown(_, _, _, _)
EvalOuter_SkipsUnknown(T, tokens, i, tagHit) ==
    IF i > Len(tokens) THEN Exhausted
    ELSE IF tokens[i].t = "Function" /\ tokens[i].name \in Recognized
         THEN EvalInner(T, tokens, i + 1, tokens[i].name, tagHit)
         ELSE EvalOuter_SkipsUnknown(T, tokens, i + 1, tagHit)

\* The outer `while let Some(token) = iter.next()` of evaluate_dax.
RECURSIVE EvalOuter(_, _, _, _)
EvalOuter(T, tokens, i, tagHit) ==
    IF i > Len(tokens) THEN Exhausted
    ELSE IF tokens[i].t = "Function"
         THEN (IF tokens[i].name \in Recognized
               THEN EvalInner(T, tokens, i + 1, tokens[i].name, tagHit)
               ELSE [result |-> ResError("Unsupported function: {}", tokens[i].name),
                     invoked |-> <<>>])
         ELSE EvalOuter(T, tokens, i + 1, tagHit)

\* Table::evaluate_dax
evaluate_dax(T, expression, tagHit) == EvalOuter(T, tokenize(expression), 1, tagHit)

(***************************************************************************)
(* Display (table.rs, impl fmt::Display for Table)                         *)
(***************************************************************************)
\* The box-drawing characters of the grid, by code point.
BoxH == "U+2500"
BoxV == "U+2502"
BoxTopLeft == "U+250C"
BoxTopRight == "U+2510"
BoxBottomLeft == "U+2514"
BoxBottomRight == "U+2518"
BoxLeftTee == "U+251C"
BoxRightTee == "U+2524"

\* str::len: the length in bytes.
RECURSIVE StrLen(_)
StrLen(s) == IF s = <<>> THEN 0 ELSE (IF Head(s) = "é" THEN 2 ELSE 1) + StrLen(Tail(s))

\* The first byte of a character, for the byte-wise order of strings.
LeadByte(ch) ==
    CASE ch = "A" -> 65 [] ch = "B" -> 66 [] ch = "é" -> 195 [] OTHER -> Utf8(ch)

\* a < b on Strings
RECURSIVE StrLt(_, _)
StrLt(a, b) ==
    IF b = <<>> THEN FALSE
    ELSE IF a = <<>> THEN TRUE
    ELSE IF Head(a) # Head(b) THEN LeadByte(Head(a)) < LeadByte(Head(b))
    ELSE StrLt(Tail(a), Tail(b))

\* column_names.sort()
RECURSIVE SortNames(_)
SortNames(S) ==
    IF S = {} THEN <<>>
    ELSE LET least == CHOOSE a \in S : \A b \in S \ {a} : StrLt(a, b)
         IN  <<least>> \o SortNames(S \ {least})

\* "-".repeat(n), for any character
Repeat(ch, n) == [i \in 1 .. n |-> ch]

\* {:<width$} and {:>width$}: pad with blanks up to width characters.
PadRight(s, width) == s \o Repeat(" ", IF Len(s) < width THEN width - Len(s) ELSE 0)
PadLeft(s, width) == Repeat(" ", IF Len(s) < width THEN width - Len(s) ELSE 0) \o s

\* The decimal digits of a natural number.
RECURSIVE DecimalDigits(_)
DecimalDigits(n) ==
    LET d == <<"0", "1", "2", "3", "4", "5", "6", "7", "8", "9">>[(n % 10) + 1]
    IN  IF n < 10 THEN <<d>> ELSE DecimalDigits(n \div 10) \o <<d>>

\* n / d rounded to the nearest integer, a tie to the even one.
RoundHalfEven(n, d) ==
    LET q == n \div d
        r == n % d
    IN  IF 2 * r > d \/ (2 * r = d /\ q % 2 = 1) THEN q + 1 ELSE q

\* format!("{:.2}", n)
FormatFixed2(n) ==
    IF is_nan(n) THEN <<"N", "a", "N">>
    ELSE IF is_infinite(n)
         THEN (IF n.neg THEN <<"-">> ELSE <<>>) \o <<"i", "n", "f">>
    ELSE LET h == RoundHalfEven(n.m * 100, OneMag)
         IN  (IF n.neg THEN <<"-">> ELSE <<>>)
                 \o DecimalDigits(h \div 100) \o <<".">>
                 \o DecimalDigits((h % 100) \div 10) \o DecimalDigits(h % 10)

\* value_width
ValueWidth(v) ==
    CASE v.t = "Text" -> StrLen(v.s)
      [] v.t = "Number" -> Len(FormatFixed2(v.n))
      [] v.t = "Boolean" -> (IF v.b THEN 4 ELSE 5)
      [] v.t = "Null" -> 0

\* column_widths[name]: the widest of the name and the values of the column.
ColumnWidth(T, name) ==
    SetMax({StrLen(name)} \cup {ValueWidth(T[name][i]) : i \in 1 .. Len(T[name])})

\* One cell of a data row.
Cell(v, width) ==
    <<" ">> \o (CASE v.t = "Text" -> PadRight(v.s, width)
                  [] v.t = "Number" -> PadLeft(FormatFixed2(v.n), width)
                  [] v.t = "Boolean" ->
                         PadLeft(IF v.b THEN <<"t", "r", "u", "e">>
                                 ELSE <<"f", "a", "l", "s", "e">>, width)
                  [] v.t = "Null" -> PadLeft(<<>>, width))
            \o <<" ">>

\* The pieces of a line joined, a vertical bar before every piece but the first.
RECURSIVE JoinCells(_)
JoinCells(cells) ==
    IF cells = <<>> THEN <<>>
    ELSE IF Len(cells) = 1 THEN cells[1]
    ELSE JoinCells(SubSeq(cells, 1, Len(cells) - 1)) \o <<BoxV>> \o cells[Len(cells)]

RECURSIVE SumSeq(_)
SumSeq(q) == IF q = <<>> THEN 0 ELSE Head(q) + SumSeq(Tail(q))

\* The key self.columns.values().next() starts from: any key of the map, by
\* the map's iteration order, none when the map is empty.
IterFirst(T) == IF DOMAIN T = {} THEN {None} ELSE {Some(n) : n \in DOMAIN T}

\* row_count: the length of the column the iteration starts from.
RowCount(T, first) == IF first.some THEN Len(T[first.val]) ELSE 0

\* <Table as Display>::fmt, the map's iteration starting from first: the lines
\* written, or a panic when the width of the border underflows.
Display_fmt(T, first) ==
    LET column_names == SortNames(DOMAIN T)
        n == Len(column_names)
        width(i) == ColumnWidth(T, column_names[i])
        border == SumSeq([i \in 1 .. n |-> width(i) + 2]) + n - 1
        rule(l, r) == <<l>> \o Repeat(BoxH, border) \o <<r>>
        header == JoinCells([i \in 1 .. n |->
                     <<" ">> \o PadRight(column_names[i], width(i)) \o <<" ">>])
        line(row) == JoinCells([i \in 1 .. n |->
                        IF row <= Len(T[column_names[i]])
                        THEN Cell(T[column_names[i]][row], width(i)) ELSE <<>>])
    IN  IF border < 0 THEN [panic |-> TRUE]
        ELSE [panic |-> FALSE,
              lines |-> <<rule(BoxTopLeft, BoxTopRight), header, rule(BoxLeftTee, BoxRightTee)>>
                          \o [row \in 1 .. RowCount(T, first) |-> line(row)]
                          \o <<rule(BoxBottomLeft, BoxBottomRight)>>]

(***************************************************************************)
(* Inputs                                                                  *)
(***************************************************************************)
One == Fin(FALSE, OneMag)
Three == Fin(FALSE, 3 * OneMag)
Tiny == Fin(FALSE, 1)
Huge == Fin(FALSE, MaxMag)
NegHuge == Fin(TRUE, MaxMag)

ColA == <<"A">>
ColB == <<"B">>
Names == {ColA, ColB}

\* The cells of the columns the aggregate operations are explored on.
AggValues ==
    {Number(One), Number(Tiny), Number(Huge), Number(NegHuge), Number(PZero),
     Number(NZero), Number(NaN(1)), Number(PInf), Text(<<"x">>), Boolean(TRUE), Null}
AggCols == UNION {[1 .. k -> AggValues] : k \in 0 .. MaxLen}
AggTables == {NewTable} \cup {add_column(NewTable, ColA, v) : v \in AggCols}

\* The values compared and hashed.
AllValues ==
    {Number(One), Number(Three), Number(NegHuge), Number(PZero), Number(NZero),
     Number(NaN(1)), Number(NaN(2)), Number(PInf), Number(NInf),
     Text(<<>>), Text(<<"x">>), Text(<<"y">>), Boolean(TRUE), Boolean(FALSE), Null}

\* The tables the evaluator is explored on: column A absent, empty, mixed, or
\* holding both zeros; column B absent or present.
EvalColsA ==
    {<<>>, <<Number(One), Text(<<"x">>), Number(Three)>>,
     <<Number(PZero), Number(NZero)>>, <<Number(NaN(1)), Number(One)>>}
EvalColsB == {<<Number(One)>>}
EvalTables ==
    LET withA == {NewTable} \cup {add_column(NewTable, ColA, v) : v \in EvalColsA}
    IN  withA \cup {add_column(T, ColB, v) : T \in withA, v \in EvalColsB}

\* The pieces expressions are concatenated from: the five recognized names, a
\* name without an arm, two column references, and two runs of other tokens.
S_sum == <<"s", "u", "m">>
Chunks ==
    {S_SUM, S_AVERAGE, S_MIN, S_MAX, S_DISTINCTCOUNT, S_sum,
     <<"[", "A", "]">>, <<"[", "B", "]">>,
     <<"(", "1", ".", "5", ",">>,
     <<" ", "/", " ", "S", "U", "M", "(", "[", "B", "]", ")">>}

RECURSIVE ExprsOfLen(_)
ExprsOfLen(k) ==
    IF k = 0 THEN {<<>>}
    ELSE {ch \o e : ch \in Chunks, e \in ExprsOfLen(k - 1)}
Exprs == UNION {ExprsOfLen(k) : k \in 0 .. MaxChunks}

\* F([n]) for each recognized function F and column name n.
CanonExprs == {f \o <<"(", "[">> \o n \o <<"]", ")">> : f \in Recognized, n \in Names}

(***************************************************************************)
(* Operations                                                              *)
(***************************************************************************)
AddColumn(name, values) ==
    /\ columns' = add_column(columns, name, values)
    /\ call' = [op |-> "add_column", name |-> name, values |-> values]

GetColumn(name) ==
    /\ call' = [op |-> "get_column", name |-> name, ret |-> get_column(columns, name)]
    /\ UNCHANGED columns

Sum(name) ==
    /\ call' = [op |-> "sum", name |-> name, ret |-> sum(columns, name)]
    /\ UNCHANGED columns

Average(name) ==
    /\ call' = [op |-> "average", name |-> name, ret |-> average(columns, name)]
    /\ UNCHANGED columns

Min(name) ==
    /\ call' = [op |-> "min", name |-> name, ret |-> min(columns, name)]
    /\ UNCHANGED columns

Max(name) ==
    /\ call' = [op |-> "max", name |-> name, ret |-> max(columns, name)]
    /\ UNCHANGED columns

Count(name) ==
    /\ call' = [op |-> "count", name |-> name, ret |-> count(columns, name)]
    /\ UNCHANGED columns

\* Each HashSet draws its own hasher keys: tagHit is the outcome of that draw.
DistinctCount(name) ==
    /\ \E tagHit \in BOOLEAN :
          call' = [op |-> "distinctcount", name |-> name,
                   ret |-> distinctcount(columns, name, tagHit)]
    /\ UNCHANGED columns

EvaluateDax(expression) ==
    /\ \E tagHit \in BOOLEAN :
          LET r == evaluate_dax(columns, expression, tagHit)
          IN  call' = [op |-> "evaluate_dax", expression |-> expression,
                       ret |-> r.result, invoked |-> r.invoked]
    /\ UNCHANGED columns

\* table.to_string(), println!("{}", table)
Display ==
    /\ \E first \in IterFirst(columns) :
          call' = [op |-> "display", out |-> Display_fmt(columns, first)]
    /\ UNCHANGED columns

\* a == b on Values
Eq(a, b) ==
    /\ call' = [op |-> "eq", a |-> a, b |-> b, ret |-> ValueEq(a, b)]
    /\ UNCHANGED columns

\* a.hash(&mut hasher)
Hash(a) ==
    /\ call' = [op |-> "hash", a |-> a, ret |-> ValueHash(a)]
    /\ UNCHANGED columns

(***************************************************************************)
(* Specifications                                                          *)
(***************************************************************************)
\* The library as a whole: a table created empty, then any sequence of calls.
Init == columns = NewTable /\ call = [op |-> "new"]

Next ==
    \/ \E n \in Names, v \in EvalColsA \cup EvalColsB : AddColumn(n, v)
    \/ \E n \in Names : GetColumn(n)
    \/ \E n \in Names : Sum(n)
    \/ \E n \in Names : Average(n)
    \/ \E n \in Names : Min(n)
    \/ \E n \in Names : Max(n)
    \/ \E n \in Names : Count(n)
    \/ \E n \in Names : DistinctCount(n)
    \/ \E e \in CanonExprs : EvaluateDax(e)
    \/ Display
    \/ \E a \in AllValues, b \in AllValues : Eq(a, b)
    \/ \E a \in AllValues : Hash(a)

Spec == Init /\ [][Next]_vars

\* The evaluator as a function of the table and the expression: every table of
\* EvalTables, one evaluate_dax call on every expression of Exprs.
\* No call has been made on the table yet.
Fresh == call.op = "new"

InitEval == columns \in EvalTables /\ call = [op |-> "new"]
NextEval == Fresh /\ \E e \in Exprs : EvaluateDax(e)
SpecEval == InitEval /\ [][NextEval]_vars

\* The aggregate operations as functions of the column: every table of
\* AggTables, one call of an operation on a present or an absent column.
InitAgg == columns \in AggTables /\ call = [op |-> "new"]
NextAgg ==
    \/ Fresh /\ \E n \in Names : Sum(n)
    \/ Fresh /\ \E n \in Names : Average(n)
    \/ Fresh /\ \E n \in Names : Min(n)
    \/ Fresh /\ \E n \in Names : Max(n)
    \/ Fresh /\ \E n \in Names : Count(n)
    \/ Fresh /\ \E n \in Names : DistinctCount(n)
    \/ Fresh /\ \E e \in CanonExprs : EvaluateDax(e)
SpecAgg == InitAgg /\ [][NextAgg]_vars

\* Value equality and hashing on every pair of AllValues.
NextValue ==
    \/ \E a \in AllValues, b \in AllValues : Eq(a, b)
    \/ \E a \in AllValues : Hash(a)
SpecValue == Init /\ [][NextValue]_vars

(***************************************************************************)
(* Properties                                                              *)
(***************************************************************************)
\* The tokens of the expression of the evaluate_dax call recorded in call.
CallTokens == tokenize(call.expression)

\* The position of the first Function token (0 if none).
FirstFunction(tokens) ==
    IF \E i \in 1 .. Len(tokens) : tokens[i].t = "Function"
    THEN SetMin({i \in 1 .. Len(tokens) : tokens[i].t = "Function"})
    ELSE 0

\* The position of the first Column token after position i (0 if none).
FirstColumnAfter(tokens, i) ==
    IF \E j \in (i + 1) .. Len(tokens) : tokens[j].t = "Column"
    THEN SetMin({j \in (i + 1) .. Len(tokens) : tokens[j].t = "Column"})
    ELSE 0

\* The first Function token is a recognized name and a Column token follows it.
HasCall(tokens) ==
    /\ FirstFunction(tokens) # 0
    /\ tokens[FirstFunction(tokens)].name \in Recognized
    /\ FirstColumnAfter(tokens, FirstFunction(tokens)) # 0

CallFunction(tokens) == tokens[FirstFunction(tokens)].name
CallColumn(tokens) == tokens[FirstColumnAfter(tokens, FirstFunction(tokens))].name

CouldNotCalculate(f) ==
    CASE f = S_SUM -> "Could not calculate SUM for column {}"
      [] f = S_AVERAGE -> "Could not calculate AVERAGE for column {}"
      [] f = S_MIN -> "Could not calculate MIN for column {}"
      [] f = S_MAX -> "Could not calculate MAX for column {}"
      [] f = S_DISTINCTCOUNT -> "Could not calculate DISTINCTCOUNT for column {}"

\* The outcome of function f applied to column col of table T.
OutcomeOf(T, f, col, tagHit) ==
    LET r == CASE f = S_SUM -> sum(T, col)
               [] f = S_AVERAGE -> average(T, col)
               [] f = S_MIN -> min(T, col)
               [] f = S_MAX -> max(T, col)
               [] f = S_DISTINCTCOUNT ->
                      (IF distinctcount(T, col, tagHit).some
                       THEN Some(FromUsize(distinctcount(T, col, tagHit).val))
                       ELSE None)
    IN  IF r.some THEN ResNumber(r.val) ELSE ResError(CouldNotCalculate(f), col)

GenericError == ResError("Invalid or unsupported DAX expression", <<>>)

\* The Number entries of a column, in column order.
NumbersOf(col) ==
    LET sel == SelectSeq(col, LAMBDA v : v.t = "Number")
    IN  [i \in 1 .. Len(sel) |-> sel[i].n]

\* The sum of a sequence of floats taken from the first to the last, from 0.0.
RECURSIVE LeftSum(_)
LeftSum(nums) ==
    IF nums = <<>> THEN PZero
    ELSE FAdd(LeftSum(SubSeq(nums, 1, Len(nums) - 1)), nums[Len(nums)])

\* The same float, NaN payloads apart.
SameFloat(a, b) == (is_nan(a) /\ is_nan(b)) \/ a = b

\* C1: single dispatch. When the first Function token is one of the five
\* recognized names and a Column token follows it, evaluate_dax returns exactly
\* the outcome of that function on the first Column token after it, and calls
\* that one table operation; no other token has any influence.
C1_SingleDispatch ==
    (call.op = "evaluate_dax" /\ HasCall(CallTokens)) =>
        /\ \E tagHit \in BOOLEAN :
              call.ret = OutcomeOf(columns, CallFunction(CallTokens),
                                   CallColumn(CallTokens), tagHit)
        /\ call.invoked = <<[f |-> CallFunction(CallTokens), col |-> CallColumn(CallTokens)]>>

\* "SUM[A] / SUM([B])" over A = [1, "x", 3], B = [1] returns Number(4.0).
C1_Witness ==
    /\ call.op = "evaluate_dax"
    /\ call.expression
         = S_SUM \o <<"[", "A", "]">>
             \o <<" ", "/", " ", "S", "U", "M", "(", "[", "B", "]", ")">>
    /\ ColA \in DOMAIN columns /\ ColB \in DOMAIN columns
    /\ columns[ColA] = <<Number(One), Text(<<"x">>), Number(Three)>>
    /\ call.ret = ResNumber(Fin(FALSE, 4 * OneMag))

\* C2: unsupported function. When the first Function token is not exactly one
\* of the five recognized names, evaluate_dax returns
\* Error("Unsupported function: <name>") with that name, whatever the table and
\* whatever follows, and calls no table operation.
C2_UnsupportedFunction ==
    (/\ call.op = "evaluate_dax"
     /\ FirstFunction(CallTokens) # 0
     /\ CallFunction(CallTokens) \notin Recognized) =>
        /\ call.ret = ResError("Unsupported function: {}", CallFunction(CallTokens))
        /\ call.invoked = <<>>

\* "sum[A] / SUM([B])" with both columns present: the error names "sum".
C2_Witness ==
    /\ call.op = "evaluate_dax"
    /\ call.expression
         = S_sum \o <<"[", "A", "]">>
             \o <<" ", "/", " ", "S", "U", "M", "(", "[", "B", "]", ")">>
    /\ ColA \in DOMAIN columns /\ ColB \in DOMAIN columns
    /\ call.ret = ResError("Unsupported function: {}", S_sum)

\* C3: missing column. For each recognized function F, when the first Column
\* token after F names a column the table does not hold, evaluate_dax returns
\* Error("Could not calculate F for column <name>"), never a Number.
C3_MissingColumn ==
    (/\ call.op = "evaluate_dax"
     /\ HasCall(CallTokens)
     /\ CallColumn(CallTokens) \notin DOMAIN columns) =>
        /\ call.ret.kind = "Error"
        /\ call.ret = ResError(CouldNotCalculate(CallFunction(CallTokens)),
                               CallColumn(CallTokens))

\* AVERAGE on column B of the empty table.
C3_Witness ==
    /\ call.op = "evaluate_dax"
    /\ columns = NewTable
    /\ HasCall(CallTokens)
    /\ CallFunction(CallTokens) = S_AVERAGE
    /\ call.ret = ResError("Could not calculate AVERAGE for column {}", ColB)

\* C4: generic error. When the tokens hold no Function token, or the first
\* Function token is a recognized name with no Column token after it,
\* evaluate_dax returns Error("Invalid or unsupported DAX expression") and calls
\* no table operation.
C4_GenericError ==
    (/\ call.op = "evaluate_dax"
     /\ \/ FirstFunction(CallTokens) = 0
        \/ /\ CallFunction(CallTokens) \in Recognized
           /\ FirstColumnAfter(CallTokens, FirstFunction(CallTokens)) = 0) =>
        /\ call.ret = GenericError
        /\ call.invoked = <<>>

\* "[A]MIN(1.5,": a column before the function, none after it.
C4_Witness ==
    /\ call.op = "evaluate_dax"
    /\ call.expression = <<"[", "A", "]">> \o S_MIN \o <<"(", "1", ".", "5", ",">>
    /\ ColA \in DOMAIN columns
    /\ call.ret = GenericError

\* C5: sum on a present column is the sum of exactly its Number entries, added
\* in column order from 0.0, every Text, Boolean and Null entry ignored; it is
\* the present result 0.0 when the column has no Number entry; it is the
\* not-found outcome exactly when the column does not exist.
C5_Sum ==
    call.op = "sum" =>
        /\ call.ret.some = (call.name \in DOMAIN columns)
        /\ call.name \in DOMAIN columns =>
              /\ SameFloat(call.ret.val, LeftSum(NumbersOf(columns[call.name])))
              /\ NumbersOf(columns[call.name]) = <<>> => call.ret.val = PZero

\* sum over [MAX, "x", 1.0]: the Text is skipped and MAX + 1.0 rounds to +inf.
C5_Witness ==
    /\ call.op = "sum"
    /\ call.name = ColA
    /\ ColA \in DOMAIN columns
    /\ columns[ColA] = <<Number(Huge), Text(<<"x">>), Number(One)>>
    /\ call.ret = Some(PInf)

\* C6: average on a present column is the sum of its Number entries divided by
\* the number of its Number entries (the other entries count in neither), and
\* the present value 0.0 when it has no Number entry, so that
\* evaluate_dax("AVERAGE([c])") on such an existing column is Number(0.0).
C6_Average ==
    /\ (call.op = "average" /\ call.name \in DOMAIN columns) =>
          LET nums == NumbersOf(columns[call.name])
          IN  /\ call.ret.some
              /\ nums = <<>> => call.ret.val = PZero
              /\ nums # <<>> =>
                    SameFloat(call.ret.val, FDiv(LeftSum(nums), FromUsize(Len(nums))))
    /\ (/\ call.op = "evaluate_dax"
        /\ HasCall(CallTokens)
        /\ CallFunction(CallTokens) = S_AVERAGE
        /\ CallColumn(CallTokens) \in DOMAIN columns
        /\ NumbersOf(columns[CallColumn(CallTokens)]) = <<>>) =>
          call.ret = ResNumber(PZero)

\* average over a column of 1.0, a Text and 1.0 is 2.0 / 2 = 1.0.
C6_Witness ==
    /\ call.op = "average"
    /\ call.name = ColA
    /\ ColA \in DOMAIN columns
    /\ columns[ColA] = <<Number(One), Text(<<"x">>), Number(One)>>
    /\ call.ret = Some(One)

\* C7: on a present column whose Number entries hold no NaN, min (max) returns
\* one of those entries that no other is less (greater) than; on a present
\* column with no Number entry they return the absent result, and
\* evaluate_dax("MIN([c])") / ("MAX([c])") then returns
\* Error("Could not calculate MIN|MAX for column c").
C7_MinMax ==
    /\ (call.op \in {"min", "max"} /\ call.name \in DOMAIN columns) =>
          LET nums == NumbersOf(columns[call.name])
              elems == {nums[i] : i \in 1 .. Len(nums)}
          IN  /\ nums = <<>> => call.ret = None
              /\ (nums # <<>> /\ \A e \in elems : ~is_nan(e)) =>
                    /\ call.ret.some
                    /\ call.ret.val \in elems
                    /\ call.op = "min" => \A e \in elems : ~FLt(e, call.ret.val)
                    /\ call.op = "max" => \A e \in elems : ~FLt(call.ret.val, e)
    /\ (/\ call.op = "evaluate_dax"
        /\ HasCall(CallTokens)
        /\ CallFunction(CallTokens) \in {S_MIN, S_MAX}
        /\ CallColumn(CallTokens) \in DOMAIN columns
        /\ NumbersOf(columns[CallColumn(CallTokens)]) = <<>>) =>
          call.ret = ResError(CouldNotCalculate(CallFunction(CallTokens)),
                              CallColumn(CallTokens))

\* min over [1.0, "x", -MAX] is -MAX.
C7_Witness ==
    /\ call.op = "min"
    /\ call.name = ColA
    /\ ColA \in DOMAIN columns
    /\ columns[ColA] = <<Number(One), Text(<<"x">>), Number(NegHuge)>>
    /\ call.ret = Some(NegHuge)

\* The number of classes of the entries of a column under Value equality.
EqClasses(col) ==
    LET elems == {col[i] : i \in 1 .. Len(col)}
    IN  Cardinality({{w \in elems : ValueEq(v, w)} : v \in elems})

\* C8: distinctcount on a present column is the number of equivalence classes
\* of its entries under Value equality.
C8_DistinctCount ==
    (call.op = "distinctcount" /\ call.name \in DOMAIN columns) =>
        /\ call.ret.some
        /\ call.ret.val = EqClasses(columns[call.name])

\* C9: hashing is consistent with equality: Values that compare equal feed the
\* hasher the same bytes.
C9_HashConsistent ==
    (call.op = "eq" /\ call.ret) => ValueHash(call.a) = ValueHash(call.b)

\* The equality the Value type is specified to have.
SpecifiedEq(a, b) ==
    /\ a.t = b.t
    /\ a.t = "Number" => (FEq(a.n, b.n) \/ (is_nan(a.n) /\ is_nan(b.n)))
    /\ a.t = "Text" => a.s = b.s
    /\ a.t = "Boolean" => a.b = b.b

\* C10: two Numbers are equal iff they are equal as floats or both are NaN;
\* Text, Boolean and Null compare structurally; Values of different variants
\* are unequal; the relation is reflexive, symmetric and transitive.
C10_ValueEquality ==
    call.op = "eq" =>
        /\ call.ret = SpecifiedEq(call.a, call.b)
        /\ ValueEq(call.a, call.a)
        /\ ValueEq(call.b, call.a) = call.ret
        /\ \A c \in AllValues : (call.ret /\ ValueEq(call.b, c)) => ValueEq(call.a, c)
        /\ (call.ret /\ call.a \in {Number(PInf), Number(NInf)}) => call.b = call.a

\* Two NaNs of different payloads compared equal.
C10_Witness ==
    /\ call.op = "eq"
    /\ call.a = Number(NaN(1))
    /\ call.b = Number(NaN(2))
    /\ call.ret = TRUE

(***************************************************************************)
(* The tokenizer, one iteration of its main loop at a time                 *)
(***************************************************************************)
MaxInput == 4

\* One character of each class the match in tokenize tells apart.
TokAlphabet == {"1", ".", "[", "]", "(", "+", " ", "a", "é"}

\* "SUM([Sales]) + AVERAGE([Quantity])"
SalesQuantity ==
    <<"S", "U", "M", "(", "[", "S", "a", "l", "e", "s", "]", ")", " ", "+", " ",
      "A", "V", "E", "R", "A", "G", "E", "(", "[", "Q", "u", "a", "n", "t", "i",
      "t", "y", "]", ")">>

TokInputs == UNION {[1 .. k -> TokAlphabet] : k \in 0 .. MaxInput} \cup {SalesQuantity}

\* tokenize(input) up to its loop: no token yet, the cursor on the first character.
Tokenize(input) ==
    /\ call' = [op |-> "tokenize", input |-> input, pos |-> 1, tokens |-> <<>>]
    /\ UNCHANGED columns

\* while let Some(&c) = chars.peek() { match c { ... } }
TokenizeLoop ==
    /\ call.op = "tokenize"
    /\ call.pos <= Len(call.input)
    /\ LET r == TokenizeIter(call.input, call.pos, call.tokens)
       IN  call' = [call EXCEPT !.pos = r.pos, !.tokens = r.tokens]
    /\ UNCHANGED columns

NextTok ==
    \/ Fresh /\ \E input \in TokInputs : Tokenize(input)
    \/ TokenizeLoop

SpecTok == Init /\ [][NextTok]_vars

\* The loop has ended and tokenize returns call.tokens.
TokenizeDone == call.op = "tokenize" /\ call.pos > Len(call.input)

\* C11: tokenize terminates on every input. Whenever the loop has not ended,
\* its next iteration is defined, leaves the cursor at least one character
\* further and never past the end of the input, and pushes at most one token;
\* so the loop ends after at most Len(input) iterations, and the tokens pushed
\* never outnumber the characters read.
C11_TokenizeTerminates ==
    call.op = "tokenize" =>
        /\ call.pos <= Len(call.input) + 1
        /\ Len(call.tokens) <= call.pos - 1
        /\ call.pos <= Len(call.input) =>
              LET r == TokenizeIter(call.input, call.pos, call.tokens)
              IN  /\ r.pos > call.pos
                  /\ r.pos <= Len(call.input) + 1
                  /\ Len(r.tokens) <= Len(call.tokens) + 1

C11_Witness ==
    /\ TokenizeDone
    /\ call.input = <<"1", ".", "é", "a">>
    /\ call.tokens = <<TokNumber(One), TokFunction(<<"a">>)>>

\* C12: tokens are emitted in source order. Each iteration reads further right
\* than the one before and keeps the tokens pushed so far as a prefix of its
\* output, so a token from an earlier position comes before one from a later
\* position; "SUM([Sales]) + AVERAGE([Quantity])" gives Function SUM, Column
\* Sales, Operator +, Function AVERAGE, Column Quantity in that order (with the
\* parentheses and blanks between them), names without their brackets.
C12_SourceOrder ==
    call.op = "tokenize" =>
        /\ call.pos <= Len(call.input) =>
              LET r == TokenizeIter(call.input, call.pos, call.tokens)
              IN  /\ r.pos > call.pos
                  /\ Len(r.tokens) >= Len(call.tokens)
                  /\ SubSeq(r.tokens, 1, Len(call.tokens)) = call.tokens
        /\ TokenizeDone /\ call.input = SalesQuantity =>
              call.tokens =
                  <<TokFunction(S_SUM), TokParenOpen,
                    TokColumn(<<"S", "a", "l", "e", "s">>), TokParenClose,
                    TokWhitespace, TokOperator("+"), TokWhitespace,
                    TokFunction(S_AVERAGE), TokParenOpen,
                    TokColumn(<<"Q", "u", "a", "n", "t", "i", "t", "y">>),
                    TokParenClose>>

C12_Witness ==
    /\ TokenizeDone
    /\ call.input = SalesQuantity
    /\ Len(call.tokens) = 11
    /\ call.tokens[10].t = "Column"

(***************************************************************************)
(* The table under any sequence of calls                                   *)
(***************************************************************************)
NextTable ==
    \/ \E n \in Names, v \in EvalColsA \cup EvalColsB : AddColumn(n, v)
    \/ \E n \in Names : GetColumn(n)
    \/ \E n \in Names : Sum(n)
    \/ \E n \in Names : Average(n)
    \/ \E n \in Names : Min(n)
    \/ \E n \in Names : Max(n)
    \/ \E n \in Names : Count(n)
    \/ \E n \in Names : DistinctCount(n)
    \/ \E e \in CanonExprs : EvaluateDax(e)
    \/ Display

SpecTable == Init /\ [][NextTable]_vars

\* C13: on a table created empty, add_column(n, values) stores exactly values
\* under n, replacing what was there, and leaves every other column as it was;
\* no other operation changes the table, so no column is ever removed;
\* get_column(n) returns the values stored under n, which are those of the most
\* recent add_column(n, ..), and none when n was never added.
C13_AddColumnOverwrites ==
    [][/\ call.op = "new" => DOMAIN columns = {}
       /\ DOMAIN columns \subseteq DOMAIN columns'
       /\ call'.op = "add_column" =>
             /\ DOMAIN columns' = DOMAIN columns \cup {call'.name}
             /\ columns'[call'.name] = call'.values
             /\ \A n \in DOMAIN columns : n # call'.name => columns'[n] = columns[n]
       /\ call'.op # "add_column" => columns' = columns
       /\ call'.op = "get_column" =>
             call'.ret = IF call'.name \in DOMAIN columns
                         THEN Some(columns[call'.name]) ELSE None]_vars

\* get_column answers the one-entry column stored under A while B holds a
\* three-entry column.
C13_Witness ==
    /\ call.op = "get_column"
    /\ call.name = ColA
    /\ call.ret = Some(<<Number(One)>>)
    /\ ColB \in DOMAIN columns
    /\ Len(columns[ColB]) = 3

(***************************************************************************)
(* The rules of the tokenizer                                              *)
(***************************************************************************)
\* The end of the maximal run of characters of class that starts at i: the
\* position of the first character from i on that is not in class.
RunEnd(s, i, class) ==
    CHOOSE j \in i .. Len(s) + 1 :
        /\ \A k \in i .. j - 1 : s[k] \in class
        /\ j = Len(s) + 1 \/ s[j] \notin class

\* The tokens a number run gives: one Number when the run has one '.' at most
\* and a digit, nothing otherwise.
NumberOfRun(run) ==
    IF Cardinality({k \in 1 .. Len(run) : run[k] = "."}) <= 1
       /\ \E k \in 1 .. Len(run) : run[k] \in Digits
    THEN <<TokNumber(ParseF64(run).val)>> ELSE <<>>

\* The number rule applied at the cursor: the whole run of digits and '.' is
\* read and gives NumberOfRun.
NumberRuleAtCursor ==
    LET r == TokenizeIter(call.input, call.pos, call.tokens)
        j == RunEnd(call.input, call.pos, Digits \cup {"."})
    IN  /\ r.pos = j
        /\ r.tokens = call.tokens \o NumberOfRun(SubSeq(call.input, call.pos, j - 1))

\* C14 as claimed: whenever the next unread character is a digit or '.', the
\* maximal run of digits and '.' starting there is read as one run, giving one
\* Number token when it parses and none otherwise; so for a run beginning with
\* '.' as well.
C14_NumberRule_AsClaimed ==
    call.op = "tokenize" /\ call.pos <= Len(call.input)
        /\ call.input[call.pos] \in Digits \cup {"."}
    => NumberRuleAtCursor

\* C14: whenever the next unread character is a digit, the maximal run of
\* digits and '.' starting there is read as one run, giving one Number token
\* holding the value of the whole run when it parses and no token otherwise.
\* A '.' as the next unread character starts no run: it alone is skipped, with
\* no token, and the digits after it start a run of their own.
C14_NumberRule ==
    call.op = "tokenize" /\ call.pos <= Len(call.input) =>
        /\ call.input[call.pos] \in Digits => NumberRuleAtCursor
        /\ call.input[call.pos] = "." =>
              TokenizeIter(call.input, call.pos, call.tokens)
                  = [pos |-> call.pos + 1, tokens |-> call.tokens]

\* ".1" gives Number(1.0): the '.' was skipped and "1" read as the run.
C14_Witness ==
    /\ TokenizeDone
    /\ call.input = <<".", "1">>
    /\ call.tokens = <<TokNumber(One)>>

\* C15: a '[' as the next unread character gives exactly one Column token,
\* named by the text between it and the next ']' (which is consumed and not
\* part of the name) or by all the remaining text when no ']' follows; the
\* cursor is left after that text, so nothing inside the brackets gives a token
\* of its own; "[]" gives the Column with the empty name.
C15_ColumnRule ==
    call.op = "tokenize" =>
        /\ call.pos <= Len(call.input) /\ call.input[call.pos] = "[" =>
              LET s == call.input
                  r == TokenizeIter(s, call.pos, call.tokens)
                  j == RunEnd(s, call.pos + 1,
                              {s[k] : k \in 1 .. Len(s)} \ {"]"})
              IN  /\ r.tokens
                       = call.tokens \o <<TokColumn(SubSeq(s, call.pos + 1, j - 1))>>
                  /\ r.pos = IF j <= Len(s) THEN j + 1 ELSE j
        /\ TokenizeDone /\ call.input = <<"[", "]">> =>
              call.tokens = <<TokColumn(<<>>)>>

\* "[1[]": the digit and the further '[' are part of the one name.
C15_Witness ==
    /\ TokenizeDone
    /\ call.input = <<"[", "1", "[", "]">>
    /\ call.tokens = <<TokColumn(<<"1", "[">>)>>

(***************************************************************************)
(* The evaluator's two states                                              *)
(***************************************************************************)
\* The first Function token of the expression is a recognized name.
FunctionFound(tokens) ==
    FirstFunction(tokens) # 0 /\ tokens[FirstFunction(tokens)].name \in Recognized

\* C16: no re-entry. Once the first Function token is a recognized name the
\* evaluator only looks for a Column token: the outcome is that function's
\* result on the first Column token after it, or the generic error when the
\* tokens end without one. It is never "Unsupported function" and no other
\* function is called, whatever lies in between, further Function tokens
\* (recognized or not) included.
C16_NoReentry ==
    (call.op = "evaluate_dax" /\ FunctionFound(CallTokens)) =>
        LET f == CallFunction(CallTokens)
            c == FirstColumnAfter(CallTokens, FirstFunction(CallTokens))
        IN  /\ call.ret.kind = "Error" => call.ret.fmt # "Unsupported function: {}"
            /\ \A k \in 1 .. Len(call.invoked) : call.invoked[k].f = f
            /\ IF c = 0
               THEN call.ret = GenericError /\ call.invoked = <<>>
               ELSE /\ call.invoked = <<[f |-> f, col |-> CallTokens[c].name]>>
                    /\ \E tagHit \in BOOLEAN :
                          call.ret = OutcomeOf(columns, f, CallTokens[c].name, tagHit)

\* "MIN / SUM([B])": the SUM between MIN and [B] is passed over, MIN is applied
\* to B.
C16_Witness ==
    /\ call.op = "evaluate_dax"
    /\ call.expression
         = S_MIN \o <<" ", "/", " ", "S", "U", "M", "(", "[", "B", "]", ")">>
    /\ ColB \in DOMAIN columns
    /\ call.invoked = <<[f |-> S_MIN, col |-> ColB]>>
    /\ call.ret.kind = "Number"

(***************************************************************************)
(* min and max over columns that hold NaN                                  *)
(***************************************************************************)
\* A min or max call on a present column with a Number entry that is not NaN.
MinMaxOverNumbers ==
    /\ call.op \in {"min", "max"}
    /\ call.name \in DOMAIN columns
    /\ \E i \in 1 .. Len(NumbersOf(columns[call.name])) :
          ~is_nan(NumbersOf(columns[call.name])[i])

\* The Number entries that come after the last NaN entry (all of them when no
\* entry is NaN).
AfterLastNaN(nums) ==
    LET nans == {i \in 1 .. Len(nums) : is_nan(nums[i])}
    IN  {nums[i] : i \in (IF nans = {} THEN 1 ELSE SetMax(nans) + 1) .. Len(nums)}

\* C17 as claimed: on a present column with a non-NaN Number entry, a result of
\* min (max) that is not NaN is the least (greatest) of the non-NaN Number
\* entries, wherever the NaN entries sit, and the result is always one of the
\* Number entries.
C17_MinMaxNaN_AsClaimed ==
    MinMaxOverNumbers =>
        LET nums == NumbersOf(columns[call.name])
            elems == {nums[i] : i \in 1 .. Len(nums)}
        IN  /\ call.ret.some
            /\ call.ret.val \in elems
            /\ ~is_nan(call.ret.val) =>
                  /\ call.op = "min" => \A e \in elems : ~FLt(e, call.ret.val)
                  /\ call.op = "max" => \A e \in elems : ~FLt(call.ret.val, e)

\* C17: on a present column with a non-NaN Number entry the result is always
\* one of the Number entries. A result of min that is not NaN is the least of
\* the non-NaN Number entries, wherever the NaN entries sit. A result of max
\* that is not NaN is the greatest of the Number entries that come after the
\* last NaN entry: an entry before a NaN is forgotten, however great.
C17_MinMaxNaN ==
    MinMaxOverNumbers =>
        LET nums == NumbersOf(columns[call.name])
            elems == {nums[i] : i \in 1 .. Len(nums)}
        IN  /\ call.ret.some
            /\ call.ret.val \in elems
            /\ ~is_nan(call.ret.val) =>
                  /\ call.op = "min" => \A e \in elems : ~FLt(e, call.ret.val)
                  /\ call.op = "max" =>
                        /\ call.ret.val \in AfterLastNaN(nums)
                        /\ \A e \in AfterLastNaN(nums) : ~FLt(call.ret.val, e)

\* max over [MAX, NaN, 1.0] is 1.0.
C17_Witness ==
    /\ call.op = "max"
    /\ call.name = ColA
    /\ ColA \in DOMAIN columns
    /\ columns[ColA] = <<Number(Huge), Number(NaN(1)), Number(One)>>
    /\ call.ret = Some(One)

(***************************************************************************)
(* evaluate_dax as a total, read-only operation                            *)
(***************************************************************************)
\* C18: on every table (columns of different lengths, NaN and non-numeric
\* entries included) and every expression, evaluate_dax returns, and what it
\* returns is DaxResult::Number or DaxResult::Error, never Text or Boolean; the
\* table after the call is the table before it.
C18_EvaluateTotal ==
    [][call'.op = "evaluate_dax" =>
          /\ call'.ret.kind \in {"Number", "Error"}
          /\ call'.ret.kind = "Number" => call'.ret.n.c \in {"fin", "inf", "nan"}
          /\ columns' = columns]_vars

\* AVERAGE over A = [NaN, 1.0], B one entry long, returns Number(NaN).
C18_Witness ==
    /\ call.op = "evaluate_dax"
    /\ ColA \in DOMAIN columns /\ ColB \in DOMAIN columns
    /\ columns[ColA] = <<Number(NaN(1)), Number(One)>>
    /\ Len(columns[ColB]) # Len(columns[ColA])
    /\ call.invoked = <<[f |-> S_AVERAGE, col |-> ColA]>>
    /\ call.ret.kind = "Number"
    /\ is_nan(call.ret.n)

(***************************************************************************)
(* Rendering                                                               *)
(***************************************************************************)
\* C19: the rendering of a table is a function of its contents: whatever key
\* the map's iteration starts from, the same name-to-values mapping gives the
\* same lines, columns in sorted order and the same number of data rows,
\* columns of different lengths included.
C19_RenderDeterministic ==
    call.op = "display" =>
        \A first \in IterFirst(columns) : Display_fmt(columns, first) = call.out
====
